---- MODULE Spec2Model ----
(***************************************************************************)
(* Federation metadata resolution of the query planner                     *)
(* (query-planner/src/federation.rs).                                      *)
(*                                                                         *)
(* The module keeps the names of the source: FederationMetadata,           *)
(* is_value_type, SchemaRef with its variants FieldDef / TypeDef /         *)
(* ObjType, the three From conversions generated by impl_from!, and        *)
(* get_federation_metadata.  In the source every arm of the match in       *)
(* get_federation_metadata and the body of is_value_type is the macro      *)
(* unimplemented!(), which panics; the model gives these calls exactly     *)
(* that outcome, tagged with the place of the panic.                       *)
(*                                                                         *)
(* The schema document is the input of the program.  It is one object      *)
(* type `Product` with the two fields `upc` and `weight`; each of the      *)
(* three elements carries a list of directives.  The document is chosen    *)
(* in Init and is never written afterwards.                                *)
(***************************************************************************)
EXTENDS Integers, Sequences, FiniteSets, TLC

VARIABLES
    schema,         \* the parsed document: element -> list of directives
    panicStrategy,  \* how the build treats a panic: "unwind" or "abort"
    host,           \* "running", or "aborted" once a panic aborted the process
    seen,           \* handle -> set of the outcomes get_federation_metadata gave for it
    last            \* the most recent call: its operation, arguments and outcome

vars == <<schema, panicStrategy, host, seen, last>>

-----------------------------------------------------------------------------
(* Bounds of the model *)

\* the number of directives in the whole document
MaxDirectives == 2

-----------------------------------------------------------------------------
(* The input: directive argument strings, directives, documents *)

\* Argument strings are sequences of characters, so that a selection set
\* can be scanned character by character.
Str_id          == <<"i", "d">>
Str_upc         == <<"u", "p", "c">>
Str_sku_region  == <<"s", "k", "u", " ", "r", "e", "g", "i", "o", "n">>
Str_weight_size == <<"w", "e", "i", "g", "h", "t", " ", "s", "i", "z", "e">>
Str_nested      == <<"a", "{", "b", " ", "c", "}", " ", "d">>
Str_unbalanced  == <<"a", "{", "b">>
Str_123         == <<"1", "2", "3">>

StringArg(s) == [tag |-> "string", val |-> s]
IntArg(s)    == [tag |-> "int", val |-> s]
NoArg        == [tag |-> "absent", val |-> <<>>]

Directive(n, a) == [name |-> n, fields |-> a]

\* The directives that occur in the documents of the model: the five
\* federation directives with well-formed and malformed `fields`
\* arguments, and one directive outside the federation vocabulary.
DirectiveUniverse ==
    { Directive("key", StringArg(Str_id)),
      Directive("key", StringArg(Str_upc)),
      Directive("key", StringArg(Str_sku_region)),
      Directive("key", IntArg(Str_123)),
      Directive("external", NoArg),
      Directive("requires", StringArg(Str_weight_size)),
      Directive("requires", NoArg),
      Directive("provides", StringArg(Str_nested)),
      Directive("provides", StringArg(Str_unbalanced)),
      Directive("extends", NoArg),
      Directive("deprecated", NoArg) }

\* The elements of the document that can be borrowed.
Elements == {"Product", "Product.upc", "Product.weight"}

DirectiveSeqs == UNION { [1..n -> DirectiveUniverse] : n \in 0..MaxDirectives }

Document(s, i, j) ==
    [e \in Elements |->
        CASE e = "Product"        -> SubSeq(s, 1, i)
          [] e = "Product.upc"    -> SubSeq(s, i + 1, j)
          [] e = "Product.weight" -> SubSeq(s, j + 1, Len(s))]

\* Every way to attach at most MaxDirectives directives to the elements.
Documents ==
    UNION { { Document(s, i, j) : i \in 0..Len(s), j \in 0..Len(s) } \
              { Document(s, i, j) : i \in 1..Len(s), j \in 0..(Len(s) - 1) }
            : s \in DirectiveSeqs }

ServiceNames == {"products", "inventory"}

-----------------------------------------------------------------------------
(* The program *)

\* struct FederationMetadata<'q> { service_name: &'q str }
FederationMetadata(service_name) == [service_name |-> service_name]

\* The ways a call ends.  Option<FederationMetadata> has the values None
\* and Some(record); a panic is the third way a Rust call can end.
None        == [kind |-> "None"]
Some(md)    == [kind |-> "Some", value |-> md]
Returned(b) == [kind |-> "Returned", value |-> b]
Panic(at)   == [kind |-> "panic", at |-> at]

\* unimplemented!() panics with the message "not implemented" and the
\* source location of the macro call.
unimplemented(at) == Panic(at)

\* FederationMetadata::is_value_type(&self) -> bool
is_value_type(self) == unimplemented("is_value_type")

\* The borrowed references a caller can pass: the static type of the
\* borrow and the element it points to.  TypeDefinition::Object wraps the
\* ObjectType, so both borrows reach the directives of `Product`.
Handles ==
    { [type |-> "Field", ptr |-> "Product.upc"],
      [type |-> "Field", ptr |-> "Product.weight"],
      [type |-> "TypeDefinition", ptr |-> "Product"],
      [type |-> "ObjectType", ptr |-> "Product"] }

\* enum SchemaRef<'q> { FieldDef(&Field), TypeDef(&TypeDefinition), ObjType(&ObjectType) }
SchemaRef(variant, r) == [variant |-> variant, ptr |-> r]

\* impl_from!(Field<'q>, FieldDef);
From_Field(r) == SchemaRef("FieldDef", r)

\* impl_from!(TypeDefinition<'q>, TypeDef);
From_TypeDefinition(r) == SchemaRef("TypeDef", r)

\* impl_from!(ObjectType<'q>, ObjType);
From_ObjectType(r) == SchemaRef("ObjType", r)

\* handle.into(): the From implementation of the handle's static type.
Into(handle) ==
    CASE handle.type = "Field"          -> From_Field(handle.ptr)
      [] handle.type = "TypeDefinition" -> From_TypeDefinition(handle.ptr)
      [] handle.type = "ObjectType"     -> From_ObjectType(handle.ptr)

\* A dispatch that tells the field arm from one catch-all arm only.
MatchArmCatchAll(schema_ref) ==
    IF schema_ref.variant = "FieldDef" THEN "FieldDef" ELSE "TypeDef"

\* The arm of `match handle.into()` that is taken.
MatchArm(schema_ref) ==
    CASE schema_ref.variant = "FieldDef" -> "FieldDef"
      [] schema_ref.variant = "TypeDef"  -> "TypeDef"
      [] schema_ref.variant = "ObjType"  -> "ObjType"

IsRecognized(d) == d.name \in {"key", "external", "requires", "provides", "extends"}

\* A resolver that gives up on an element with a directive it does not know.
get_federation_metadata_strict(doc, handle) ==
    IF \E i \in 1..Len(doc[handle.ptr]) : ~IsRecognized(doc[handle.ptr][i])
    THEN None
    ELSE unimplemented(MatchArm(Into(handle)))

\* A resolver that answers from the result of the call before when that
\* call was for another reference.
get_federation_metadata_stale(doc, handle) ==
    IF last.op = "get_federation_metadata" /\ last.handle # handle
    THEN last.outcome
    ELSE unimplemented(MatchArm(Into(handle)))

\* get_federation_metadata(handle) -> Option<FederationMetadata>:
\* every arm of the match is unimplemented!().
get_federation_metadata(doc, handle) ==
    unimplemented(MatchArm(Into(handle)))

\* What a panic does to the host process.
AfterPanic(outcome) ==
    IF outcome.kind = "panic" /\ panicStrategy = "abort" THEN "aborted" ELSE host

NoCall == [op |-> "none"]

Init ==
    /\ schema \in Documents
    /\ panicStrategy \in {"unwind", "abort"}
    /\ host = "running"
    /\ seen = [h \in Handles |-> {}]
    /\ last = NoCall

\* The caller calls get_federation_metadata with one of the borrows.
GetFederationMetadata(handle) ==
    /\ host = "running"
    /\ LET outcome == get_federation_metadata(schema, handle)
       IN /\ last' = [op |-> "get_federation_metadata", handle |-> handle,
                      again |-> seen[handle] # {},
                      schema_ref |-> Into(handle),
                      arm |-> MatchArm(Into(handle)),
                      outcome |-> outcome]
          /\ seen' = [seen EXCEPT ![handle] = @ \cup {outcome}]
          /\ host' = AfterPanic(outcome)
    /\ UNCHANGED <<schema, panicStrategy>>

\* The caller asks a record whether it is a value type.  No call of
\* get_federation_metadata returns one, so the record is one the caller
\* built: the struct and its field are pub.
IsValueType(self) ==
    /\ host = "running"
    /\ LET outcome == is_value_type(self)
       IN /\ last' = [op |-> "is_value_type", self |-> self, outcome |-> outcome]
          /\ host' = AfterPanic(outcome)
    /\ UNCHANGED <<schema, panicStrategy, seen>>

Next ==
    \/ \E handle \in Handles : GetFederationMetadata(handle)
    \/ \E service_name \in ServiceNames : IsValueType(FederationMetadata(service_name))

Spec == Init /\ [][Next]_vars

-----------------------------------------------------------------------------
(* What the specification expects of a resolution: the vocabulary of its  *)
(* sections 4.2, 6 and 7, used to state the properties below.             *)

\* The typed failure of section 7.
Err(condition) == [kind |-> "Err", condition |-> condition]

HasDirective(dirs, n) == \E i \in 1..Len(dirs) : dirs[i].name = n

HasRecognized(dirs) == \E i \in 1..Len(dirs) : IsRecognized(dirs[i])

HasUnrecognized(dirs) == \E i \in 1..Len(dirs) : ~IsRecognized(dirs[i])

\* The brace depth after each character never falls below 0 and ends at 0.
RECURSIVE BalancedFrom(_, _, _)
BalancedFrom(s, i, depth) ==
    IF depth < 0 THEN FALSE
    ELSE IF i > Len(s) THEN depth = 0
    ELSE BalancedFrom(s, i + 1,
                      depth + (IF s[i] = "{" THEN 1 ELSE IF s[i] = "}" THEN -1 ELSE 0))

Balanced(s) == BalancedFrom(s, 1, 0)

\* A directive that takes `fields` whose argument is missing, is no
\* string, or has unbalanced braces.
IsMalformed(d) ==
    /\ d.name \in {"key", "requires", "provides"}
    /\ \/ d.fields.tag # "string"
       \/ ~Balanced(d.fields.val)

HasMalformed(dirs) == \E i \in 1..Len(dirs) : IsMalformed(dirs[i])

\* The entries of a selection set: split at the blanks of brace depth 0.
RECURSIVE SplitFrom(_, _, _, _, _)
SplitFrom(s, i, depth, cur, acc) ==
    LET closed == IF cur = <<>> THEN acc ELSE acc \cup {cur}
    IN IF i > Len(s) THEN closed
       ELSE IF s[i] = " " /\ depth = 0 THEN SplitFrom(s, i + 1, 0, <<>>, closed)
       ELSE SplitFrom(s, i + 1,
                      depth + (IF s[i] = "{" THEN 1 ELSE IF s[i] = "}" THEN -1 ELSE 0),
                      Append(cur, s[i]), acc)

TopLevelSplit(s) == SplitFrom(s, 1, 0, <<>>, {})

\* The `fields` arguments of the directives named n, in declaration order.
FieldsArgsOf(dirs, n) ==
    LET named == SelectSeq(dirs, LAMBDA d : d.name = n)
    IN [i \in 1..Len(named) |-> named[i].fields.val]

\* The top-level entries of all directives named n.
FieldSetOf(dirs, n) ==
    UNION { TopLevelSplit(FieldsArgsOf(dirs, n)[i]) : i \in 1..Len(FieldsArgsOf(dirs, n)) }

\* The document without the directives outside the federation vocabulary.
StripUnrecognized(doc) ==
    [e \in DOMAIN doc |-> SelectSeq(doc[e], IsRecognized)]

Resolved == last.op = "get_federation_metadata"

ResolvedDirectives == schema[last.handle.ptr]

ResolvedType == last.handle.type \in {"TypeDefinition", "ObjectType"}

ResolvedField == last.handle.type = "Field"

HasField(outcome, f) == outcome.kind = "Some" /\ f \in DOMAIN outcome.value

-----------------------------------------------------------------------------
(* The claims *)

\* C1: a resolution of an element that carries none of the directives
\* @key, @external, @requires, @provides, @extends returns None: no
\* record, no failure.
C1_AbsentWithoutFederationDirectives ==
    (Resolved /\ ~HasRecognized(ResolvedDirectives)) => last.outcome = None

\* C2: a resolution of a type or object type with one or more well-formed
\* @key directives returns a record whose key_fields is the sequence of
\* their fields arguments, in declaration order, one entry per directive,
\* duplicates kept.
C2_KeyFieldsInDeclarationOrder ==
    ( /\ Resolved
      /\ ResolvedType
      /\ HasDirective(ResolvedDirectives, "key")
      /\ ~HasMalformed(ResolvedDirectives) )
    => /\ HasField(last.outcome, "key_fields")
       /\ last.outcome.value.key_fields = FieldsArgsOf(ResolvedDirectives, "key")

\* C3: the record returned for a type or object type that carries @key or
\* @extends has is_value_type() = false; is_value_type() is true only
\* for a type with neither.
C3_ValueTypeOnlyWithoutKeyAndExtends ==
    ( /\ Resolved
      /\ ResolvedType
      /\ ~HasMalformed(ResolvedDirectives)
      /\ \/ HasDirective(ResolvedDirectives, "key")
         \/ HasDirective(ResolvedDirectives, "extends") )
    => /\ last.outcome.kind = "Some"
       /\ is_value_type(last.outcome.value) = Returned(FALSE)

\* C4: a resolution of an element with a recognized directive whose
\* fields argument is missing, is no string or has unbalanced braces
\* reports MalformedDirective to the caller.
C4_MalformedDirectiveIsReported ==
    (Resolved /\ HasMalformed(ResolvedDirectives))
    => last.outcome = Err("MalformedDirective")

\* C5: every call of get_federation_metadata and of is_value_type ends
\* by returning a record, the absent value, a boolean or a typed failure,
\* and leaves the host process running.
C5_EveryCallReturns ==
    last # NoCall
    => /\ last.outcome.kind \in {"Some", "None", "Err", "Returned"}
       /\ host = "running"

\* C6: a resolution of a field marked @external returns a record with
\* is_external = true; for `type Product @key(fields: "upc") { upc
\* weight @external }` the object type gives key_fields = ["upc"] and
\* is_value_type() = false.
C6_ExternalFieldIsExternal ==
    /\ ( /\ Resolved
         /\ ResolvedField
         /\ HasDirective(ResolvedDirectives, "external")
         /\ ~HasMalformed(ResolvedDirectives) )
       => /\ HasField(last.outcome, "is_external")
          /\ last.outcome.value.is_external = TRUE
    /\ ( /\ Resolved
         /\ last.handle.type = "ObjectType"
         /\ schema["Product"] = <<Directive("key", StringArg(Str_upc))>>
         /\ schema["Product.weight"] = <<Directive("external", NoArg)>> )
       => /\ HasField(last.outcome, "key_fields")
          /\ last.outcome.value.key_fields = <<Str_upc>>
          /\ is_value_type(last.outcome.value) = Returned(FALSE)

\* C7: a resolution of a field with well-formed @requires / @provides
\* directives returns a record whose requires_fields / provides_fields is
\* the set of the entries of the fields argument, split at the blanks
\* outside braces.
C7_FieldSetsSplitAtTopLevel ==
    ( /\ Resolved
      /\ ResolvedField
      /\ ~HasMalformed(ResolvedDirectives)
      /\ \/ HasDirective(ResolvedDirectives, "requires")
         \/ HasDirective(ResolvedDirectives, "provides") )
    => /\ HasField(last.outcome, "requires_fields")
       /\ HasField(last.outcome, "provides_fields")
       /\ last.outcome.value.requires_fields = FieldSetOf(ResolvedDirectives, "requires")
       /\ last.outcome.value.provides_fields = FieldSetOf(ResolvedDirectives, "provides")

C10_CoercionPreservesKindAndIdentity ==
    Resolved
    => LET variant == CASE last.handle.type = "Field"          -> "FieldDef"
                        [] last.handle.type = "TypeDefinition" -> "TypeDef"
                        [] last.handle.type = "ObjectType"     -> "ObjType"
       IN /\ last.schema_ref.variant = variant
          /\ last.schema_ref.ptr = last.handle.ptr
          /\ last.arm = variant

\* An ObjectType borrow has been resolved.
C10_Witness == Resolved /\ last.handle.type = "ObjectType"

====
